---- MODULE Spec2Model ----
(***************************************************************************)
(* Model of the font container transcoder of ldesign-webfont               *)
(* (src/src/core/converter.ts): convertFont, decompressWoff, compressWoff. *)
(* Buffers are sequences of bytes; byte i of a Node Buffer is element i+1. *)
(***************************************************************************)
EXTENDS Integers, Sequences, FiniteSets, TLC

VARIABLES
    \* ---- codec harness: compressWoff / decompressWoff applied to inputs
    cpc,            \* "start" | "encoded" | "decoded"
    sfntBuffer,     \* the SFNT buffer handed to compressWoff
    woffResult,     \* outcome of compressWoff(sfntBuffer)
    woffBuffer,     \* the WOFF buffer handed to decompressWoff
    sfntResult,     \* outcome of decompressWoff(woffBuffer)
    \* ---- convertFont(options)
    pc,             \* "idle" | "normalize" | "encode" | "resolved" | "rejected"
    inputBuffer,    \* options.inputBuffer
    inputFormat,    \* options.inputFormat
    outputFormats,  \* options.outputFormats
    ttfBuffer,      \* the intermediate buffer of step 1 (NoBuffer until set)
    ttfRef,         \* the memory ttfBuffer refers to (NoRef until set)
    results,        \* ConvertResult[] built by step 2
    fmtIdx,         \* position of the for..of loop over outputFormats
    thrown,         \* the Error the returned promise rejects with
    calls,          \* collaborators and codecs invoked so far
    consoleErrors,  \* formats reported through console.error
    failing,        \* the collaborators that throw when called in this call
    \* ---- signature sniffing: detectFormat, detectFontFormat, isValidFont
    sniffBuffer,    \* the buffer handed to the three functions
    fontkitParses,  \* whether fontkit.create accepts sniffBuffer
    detected,       \* outcome of detectFormat(sniffBuffer)
    fontInfo,       \* outcome of detectFontFormat(sniffBuffer)
    validFont,      \* outcome of isValidFont(sniffBuffer)
    \* ---- the pipelines: processFontFile (plugin) and subsetCommand (CLI)
    ppc,            \* "off" | "start" | "detected" | "subsetted" | "converted" | "done" | "failed"
    pipeline,       \* "processFontFile" | "subsetCommand"
    fontBuffer,     \* the bytes read from the font file
    text,           \* the subsetting text, a sequence of code points
    formats,        \* the requested output formats
    fontkitOk,      \* whether fontkit.create accepts fontBuffer
    fontkitFont,    \* the font object it returns when it does
    fontmin,        \* what the subsetter does when it runs
    fontInfoOfFile, \* outcome of detectFontFormat(fontBuffer)
    processedBuffer,\* the buffer after the subsetting step
    convertOptions, \* the options convertFont was called with
    convertOutcome, \* outcome of that call
    written,        \* formats of the files written
    warnings,       \* console.warn messages
    \* ---- MemoryCache
    cache,          \* the Map, as the sequence of its entries in insertion order
    maxSize,        \* the constructor's argument
    now,            \* Date.now()
    lastCall,       \* the last method called and what it returned
    \* ---- batchProcess(items, fn, concurrency)
    bpc,            \* "off" | "loop" | "race" | "all" | "returned"
    items,          \* the items
    concurrency,    \* the limit
    loopIndex,      \* i of the for loop
    executing,      \* the executing array, as indices of the promises it holds
    started,        \* indices i for which fn(items[i], i) was called
    settled,        \* indices whose promise has resolved and run its callback
    batchResults,   \* the results array (Unset where nothing was assigned)
    \* ---- extractUniqueChars(text)
    tpc,            \* "off" | "start" | "once" | "twice"
    inputText,      \* the argument, a string as the sequence of its UTF-16 code units
    unique,         \* extractUniqueChars(inputText)
    uniqueAgain     \* extractUniqueChars(unique)

vars == <<cpc, sfntBuffer, woffResult, woffBuffer, sfntResult,
          pc, inputBuffer, inputFormat, outputFormats, ttfBuffer, ttfRef, results,
          fmtIdx, thrown, calls, consoleErrors, failing,
          sniffBuffer, fontkitParses, detected, fontInfo, validFont,
          ppc, pipeline, fontBuffer, text, formats, fontkitOk, fontkitFont, fontmin,
          fontInfoOfFile, processedBuffer, convertOptions, convertOutcome,
          written, warnings,
          cache, maxSize, now, lastCall,
          bpc, items, concurrency, loopIndex, executing, started, settled, batchResults,
          tpc, inputText, unique, uniqueAgain>>

textVars == <<tpc, inputText, unique, uniqueAgain>>

cacheVars == <<cache, maxSize, now, lastCall>>
batchVars == <<bpc, items, concurrency, loopIndex, executing, started, settled,
               batchResults>>
pipeVars == <<ppc, pipeline, fontBuffer, text, formats, fontkitOk, fontkitFont, fontmin,
              fontInfoOfFile, processedBuffer, convertOptions, convertOutcome,
              written, warnings>>

sniffVars == <<sniffBuffer, fontkitParses, detected, fontInfo, validFont>>
codecVars == <<cpc, sfntBuffer, woffResult, woffBuffer, sfntResult>>
convertVars == <<pc, inputBuffer, inputFormat, outputFormats, ttfBuffer, ttfRef, results,
                 fmtIdx, thrown, calls, consoleErrors, failing>>

(***************************************************************************)
(* Bounds of the model.                                                    *)
(***************************************************************************)
MaxTables == 2

MaxOutputs == 2
\* the last reading of the clock
MaxClock == 2
\* the longest text, in UTF-16 code units
MaxTextLen == 6
\* the most items handed to batchProcess
MaxItems == 4

(***************************************************************************)
(* Program constants.                                                      *)
(***************************************************************************)
WoffHeaderSize == 44
WoffEntrySize == 20
SfntHeaderSize == 12
SfntEntrySize == 16
TrueTypeVersion == 65536

(***************************************************************************)
(* Node Buffer primitives.                                                 *)
(***************************************************************************)
Min(a, b) == IF a < b THEN a ELSE b

Max(a, b) == IF a < b THEN b ELSE a

\* Buffer.alloc(n): n zero bytes
Zeros(n) == [i \in 1..n |-> 0]

\* buf.slice(start, end): both ends clamped to the buffer, never throws
Slice(buf, start, end) ==
    LET s == Min(Max(start, 0), Len(buf))
        e == Min(Max(end, 0), Len(buf))
    IN  IF e <= s THEN <<>> ELSE SubSeq(buf, s + 1, e)

\* readUInt32BE / readUInt16BE throw ERR_OUT_OF_RANGE unless the bytes exist
CanRead(buf, off, width) == off >= 0 /\ off + width <= Len(buf)

ReadUInt32BE(buf, off) ==
    buf[off + 1] * 16777216 + buf[off + 2] * 65536 + buf[off + 3] * 256 + buf[off + 4]

ReadUInt16BE(buf, off) == buf[off + 1] * 256 + buf[off + 2]

\* the four bytes writeUInt32BE(v, ...) stores
UInt32BE(v) == <<(v \div 16777216) % 256, (v \div 65536) % 256, (v \div 256) % 256, v % 256>>

\* the two bytes writeUInt16BE(v, ...) stores
UInt16BE(v) == <<(v \div 256) % 256, v % 256>>

\* buf.writeUInt32BE(v, off) on an existing buffer
WriteUInt32BE(buf, v, off) ==
    [i \in 1..Len(buf) |-> IF i > off /\ i <= off + 4 THEN UInt32BE(v)[i - off] ELSE buf[i]]

\* Buffer.concat(parts)
RECURSIVE Concat(_)
Concat(parts) == IF parts = <<>> THEN <<>> ELSE Head(parts) \o Concat(Tail(parts))

\* Math.floor(Math.log2(n)) for n >= 1
RECURSIVE FloorLog2(_)
FloorLog2(n) == IF n < 2 THEN 0 ELSE 1 + FloorLog2(n \div 2)

RECURSIVE Pow2(_)
Pow2(e) == IF e = 0 THEN 1 ELSE 2 * Pow2(e - 1)

\* bytes added after len bytes to reach a 4-byte boundary
Pad4(len) == (4 - (len % 4)) % 4

(***************************************************************************)
(* pako.deflate / pako.inflate.  The library is a collaborator; it is      *)
(* modelled as a run-length codec behind a one-byte stream header, which   *)
(* keeps what the callers rely on: the stream may be longer or shorter     *)
(* than the data, inflate inverts deflate, and inflate throws on bytes     *)
(* that are no stream.                                                     *)
(***************************************************************************)
RECURSIVE RunLength(_, _)
RunLength(data, b) ==
    IF data = <<>> \/ Head(data) # b THEN 0 ELSE 1 + RunLength(Tail(data), b)

RECURSIVE DeflateRuns(_)
DeflateRuns(data) ==
    IF data = <<>> THEN <<>>
    ELSE LET n == RunLength(data, Head(data))
         IN  <<n, Head(data)>> \o DeflateRuns(SubSeq(data, n + 1, Len(data)))

pakoDeflate(data) == <<120>> \o DeflateRuns(data)

RECURSIVE InflateRuns(_)
InflateRuns(runs) ==
    IF runs = <<>> THEN <<>>
    ELSE [i \in 1..runs[1] |-> runs[2]] \o InflateRuns(SubSeq(runs, 3, Len(runs)))

\* whether pako.inflate returns (TRUE) or throws (FALSE)
pakoInflateOk(stream) ==
    /\ Len(stream) >= 1
    /\ stream[1] = 120
    /\ (Len(stream) - 1) % 2 = 0
    /\ \A k \in 1..((Len(stream) - 1) \div 2) : stream[2 * k] >= 1

pakoInflate(stream) == InflateRuns(Tail(stream))

(***************************************************************************)
(* Outcomes of a function that may throw.                                  *)
(***************************************************************************)
\* the memory a Buffer object refers to: the caller's input, the allocation
\* of step 1, or the allocation of iteration i of step 2
NoRef == <<"none", 0>>
InputRef == <<"inputBuffer", 0>>
NormalizedRef == <<"ttfBuffer", 0>>
EncodedRef(i) == <<"buffer", i>>

NoBuffer == <<-1>>

Returned(buf) == [ok |-> TRUE, buffer |-> buf, error |-> "none"]

Threw(msg) == [ok |-> FALSE, buffer |-> NoBuffer, error |-> msg]

(***************************************************************************)
(* compressWoff(ttfBuffer)                                                 *)
(***************************************************************************)
\* the choice with the comparison relaxed: a stream as long as the table wins
CompressWoffFinalData_NotStrict(compressed, tableData) ==
    IF Len(compressed) <= Len(tableData) THEN compressed ELSE tableData

\* which of the deflated and the raw table bytes is stored
CompressWoffFinalData(compressed, tableData) ==
    IF Len(compressed) < Len(tableData) THEN compressed ELSE tableData

\* the value written into the first directory entry's offset field
CompressWoffFirstOffset(numTables) == SfntHeaderSize + numTables * SfntEntrySize

\* the SFNT checksum of table bytes: the sum of their big-endian 32-bit words
\* (the tables of this model are short, the sum stays far below 2^32)
RECURSIVE TableChecksum(_)
TableChecksum(data) ==
    IF data = <<>> THEN 0
    ELSE ReadUInt32BE(Slice(data, 0, 4) \o Zeros(4 - Len(Slice(data, 0, 4))), 0)
         + TableChecksum(Slice(data, 4, Len(data)))

\* the iteration with the checksum recomputed from the table bytes
CompressWoffTable_Recompute(ttf, i, tableOffset) ==
    LET entryOffset == SfntHeaderSize + i * SfntEntrySize
        tag         == Slice(ttf, entryOffset, entryOffset + 4)
        offset      == ReadUInt32BE(ttf, entryOffset + 8)
        length      == ReadUInt32BE(ttf, entryOffset + 12)
        tableData   == Slice(ttf, offset, offset + length)
        checksum    == TableChecksum(tableData)
        compressed  == pakoDeflate(tableData)
        finalData   == IF Len(compressed) < Len(tableData) THEN compressed ELSE tableData
        compLength  == Len(finalData)
    IN  [entry |-> tag \o UInt32BE(tableOffset) \o UInt32BE(compLength)
                       \o UInt32BE(length) \o UInt32BE(checksum),
         finalData |-> finalData,
         compLength |-> compLength]

\* one iteration of the table loop: entry i (0-based) of the source directory
CompressWoffTable(ttf, i, tableOffset) ==
    LET entryOffset == SfntHeaderSize + i * SfntEntrySize
        tag         == Slice(ttf, entryOffset, entryOffset + 4)
        checksum    == ReadUInt32BE(ttf, entryOffset + 4)
        offset      == ReadUInt32BE(ttf, entryOffset + 8)
        length      == ReadUInt32BE(ttf, entryOffset + 12)
        tableData   == Slice(ttf, offset, offset + length)
        compressed  == pakoDeflate(tableData)
        finalData   == CompressWoffFinalData(compressed, tableData)
        compLength  == Len(finalData)
    IN  [entry |-> tag \o UInt32BE(tableOffset) \o UInt32BE(compLength)
                       \o UInt32BE(length) \o UInt32BE(checksum),
         finalData |-> finalData,
         compLength |-> compLength]

\* the loop from table i on: the entries and payloads pushed, in order
RECURSIVE CompressWoffLoop(_, _, _, _)
CompressWoffLoop(ttf, numTables, i, tableOffset) ==
    IF i >= numTables THEN [entries |-> <<>>, parts |-> <<>>]
    ELSE LET t    == CompressWoffTable(ttf, i, tableOffset)
             rest == CompressWoffLoop(ttf, numTables, i + 1, tableOffset + t.compLength)
         IN  [entries |-> <<t.entry>> \o rest.entries,
              parts   |-> <<t.finalData>> \o rest.parts]

\* the reads of the header and of every directory entry all succeed
CompressWoffReadsOk(ttf) ==
    /\ CanRead(ttf, 4, 2)
    /\ CanRead(ttf, 0, 4)
    /\ \A i \in 0..(ReadUInt16BE(ttf, 4) - 1) :
           CanRead(ttf, SfntHeaderSize + i * SfntEntrySize + 12, 4)

compressWoff(ttf) ==
    IF ~CompressWoffReadsOk(ttf) THEN Threw("WOFF compress failed: out of range")
    ELSE LET numTables  == ReadUInt16BE(ttf, 4)
             woffHeader == <<119, 79, 70, 70>> \o UInt32BE(ReadUInt32BE(ttf, 0))
                           \o Zeros(4) \o UInt16BE(numTables) \o Zeros(30)
             loop       == CompressWoffLoop(ttf, numTables, 0,
                                            CompressWoffFirstOffset(numTables))
             joined     == woffHeader \o Concat(loop.entries) \o Concat(loop.parts)
         IN  Returned(WriteUInt32BE(WriteUInt32BE(joined, Len(joined), 8), Len(ttf), 16))

(***************************************************************************)
(* decompressWoff(woffBuffer)                                              *)
(***************************************************************************)
\* the sfnt version written into the SFNT header
DecompressWoffFlavor(woff) == TrueTypeVersion

DecompressWoffSearchRange(numTables) == FloorLog2(numTables) * 16

DecompressWoffEntrySelector(numTables) == FloorLog2(numTables)

DecompressWoffRangeShift(numTables) ==
    numTables * 16 - DecompressWoffSearchRange(numTables)

\* the 12-byte SFNT header
DecompressWoffHeader(woff, numTables) ==
    UInt32BE(DecompressWoffFlavor(woff)) \o UInt16BE(numTables)
    \o UInt16BE(DecompressWoffSearchRange(numTables))
    \o UInt16BE(DecompressWoffEntrySelector(numTables))
    \o UInt16BE(DecompressWoffRangeShift(numTables))

\* where the loop reads the first directory entry
DecompressWoffFirstEntry == WoffHeaderSize

\* where the loop takes the stored bytes of the entry it read at offset
DecompressWoffPayloadPos(woff, offset) == offset + WoffEntrySize

\* where the loop reads the next directory entry
DecompressWoffNextEntry(offset, compLength) == offset + WoffEntrySize + compLength

\* the checksum written into the SFNT directory entry
DecompressWoffChecksum(woff, offset) == 0

\* one iteration of the table loop, reading the entry at offset
DecompressWoffTable(woff, offset, ttfOffset) ==
    IF ~(CanRead(woff, offset + 8, 4) /\ CanRead(woff, offset + 12, 4))
    THEN [ok |-> FALSE, error |-> "out of range", entryPos |-> offset]
    ELSE LET tag        == Slice(woff, offset, offset + 4)
             compLength == ReadUInt32BE(woff, offset + 8)
             origLength == ReadUInt32BE(woff, offset + 12)
             payloadPos == DecompressWoffPayloadPos(woff, offset)
             compData   == Slice(woff, payloadPos, payloadPos + compLength)
         IN  IF compLength < origLength /\ ~pakoInflateOk(compData)
             THEN [ok |-> FALSE, error |-> "inflate failed", entryPos |-> offset]
             ELSE [ok |-> TRUE, error |-> "none", entryPos |-> offset,
                   payloadPos |-> payloadPos,
                   compLength |-> compLength,
                   origLength |-> origLength,
                   inflated   |-> compLength < origLength,
                   tableData  |-> IF compLength < origLength
                                  THEN pakoInflate(compData) ELSE compData,
                   dirEntry   |-> tag \o UInt32BE(DecompressWoffChecksum(woff, offset))
                                      \o UInt32BE(ttfOffset) \o UInt32BE(origLength),
                   nextTtfOffset |-> ttfOffset + origLength
                                     + (IF origLength % 4 # 0
                                        THEN 4 - (origLength % 4) ELSE 0),
                   nextOffset |-> DecompressWoffNextEntry(offset, compLength)]

\* the loop from table i on: one record per iteration, ending at the first throw
RECURSIVE DecompressWoffLoop(_, _, _, _, _)
DecompressWoffLoop(woff, numTables, i, offset, ttfOffset) ==
    IF i >= numTables THEN <<>>
    ELSE LET t == DecompressWoffTable(woff, offset, ttfOffset)
         IN  IF ~t.ok THEN <<t>>
             ELSE <<t>> \o DecompressWoffLoop(woff, numTables, i + 1,
                                              t.nextOffset, t.nextTtfOffset)

\* the iterations decompressWoff runs on woff (none when it throws before the loop)
DecompressWoffTables(woff) ==
    IF Slice(woff, 0, 4) # <<119, 79, 70, 70>> \/ ~CanRead(woff, 12, 2) THEN <<>>
    ELSE LET numTables == ReadUInt16BE(woff, 12)
         IN  IF numTables = 0 THEN <<>>
             ELSE DecompressWoffLoop(woff, numTables, 0, DecompressWoffFirstEntry,
                                     SfntHeaderSize + numTables * SfntEntrySize)

\* a table followed by the padding computed from its own length
DecompressWoffPadded(table) == table \o Zeros(Pad4(Len(table)))

decompressWoff(woff) ==
    IF Slice(woff, 0, 4) # <<119, 79, 70, 70>> THEN Threw("not a valid WOFF file")
    ELSE IF ~(CanRead(woff, 8, 4) /\ CanRead(woff, 12, 2))
    THEN Threw("WOFF decompress failed: out of range")
    ELSE IF ReadUInt16BE(woff, 12) = 0
    THEN Threw("WOFF decompress failed: value out of range")
    ELSE LET numTables == ReadUInt16BE(woff, 12)
             ts        == DecompressWoffTables(woff)
         IN  IF \E k \in 1..Len(ts) : ~ts[k].ok
             THEN Threw("WOFF decompress failed: " \o ts[Len(ts)].error)
             ELSE Returned(DecompressWoffHeader(woff, numTables)
                           \o Concat([k \in 1..Len(ts) |-> ts[k].dirEntry])
                           \o Concat([k \in 1..Len(ts) |->
                                         DecompressWoffPadded(ts[k].tableData)]))

(***************************************************************************)
(* The collaborators of convertFont.  Each throws when the environment     *)
(* makes it fail (failing); otherwise the WOFF2 codec is modelled as an    *)
(* envelope around the SFNT bytes and the outline converter as a rewrite   *)
(* of the sfnt version.                                                    *)
(***************************************************************************)
\* wawoff2.compress(ttfBuffer)
compressWoff2(ttf, fails) ==
    IF "compressWoff2" \in fails THEN Threw("woff2 compress failed")
    ELSE Returned(<<119, 79, 70, 50>> \o ttf)

\* wawoff2.decompress(inputBuffer)
decompressWoff2(buf, fails) ==
    IF "decompressWoff2" \in fails \/ Slice(buf, 0, 4) # <<119, 79, 70, 50>>
    THEN Threw("woff2 decompress failed")
    ELSE Returned(Slice(buf, 4, Len(buf)))

\* convertOtfToTtf(otfBuffer): opentype.parse(...).toArrayBuffer()
convertOtfToTtf(buf, fails) ==
    IF "convertOtfToTtf" \in fails \/ ~CanRead(buf, 0, 4)
    THEN Threw("OTF to TTF failed: parse error")
    ELSE Returned(UInt32BE(TrueTypeVersion) \o Slice(buf, 4, Len(buf)))

(***************************************************************************)
(* convertFont(options)                                                    *)
(***************************************************************************)
\* step 1 with the default case falling through to the 'ttf' case
ConvertFontNormalize_NoDefault(format, buf, fails) ==
    LET wrap(r, called, fresh) ==
            [ok |-> r.ok, buffer |-> r.buffer, called |-> called, fresh |-> fresh,
             error |-> IF r.ok THEN "none" ELSE "format conversion failed: " \o r.error]
    IN  CASE format = "otf"   -> wrap(convertOtfToTtf(buf, fails), {"convertOtfToTtf"}, TRUE)
          [] format = "woff"  -> wrap(decompressWoff(buf), {"decompressWoff"}, TRUE)
          [] format = "woff2" -> wrap(decompressWoff2(buf, fails), {"decompressWoff2"}, TRUE)
          [] OTHER            -> wrap(Returned(buf), {}, FALSE)

\* step 1: the switch on inputFormat inside the try, with the catch that wraps
\* whatever was thrown; called names the function the case invokes, and fresh
\* tells a newly allocated buffer from an assignment of the argument itself
ConvertFontNormalize(format, buf, fails) ==
    LET wrap(r, called, fresh) ==
            [ok |-> r.ok, buffer |-> r.buffer, called |-> called, fresh |-> fresh,
             error |-> IF r.ok THEN "none" ELSE "format conversion failed: " \o r.error]
    IN  CASE format = "ttf"   -> wrap(Returned(buf), {}, FALSE)
          [] format = "otf"   -> wrap(convertOtfToTtf(buf, fails), {"convertOtfToTtf"}, TRUE)
          [] format = "woff"  -> wrap(decompressWoff(buf), {"decompressWoff"}, TRUE)
          [] format = "woff2" -> wrap(decompressWoff2(buf, fails), {"decompressWoff2"}, TRUE)
          [] OTHER            -> wrap(Threw("unsupported input format: " \o format), {}, FALSE)

\* step 2: the switch on one output format; an unlisted format leaves buffer
\* undefined, and reading buffer.length then throws a TypeError
ConvertFontEncode(format, ttf, fails) ==
    LET with(r, called, fresh) ==
            [ok |-> r.ok, buffer |-> r.buffer, error |-> r.error, called |-> called,
             fresh |-> fresh]
    IN  CASE format = "ttf"   -> with(Returned(ttf), {}, FALSE)
          [] format = "woff"  -> with(compressWoff(ttf), {"compressWoff"}, TRUE)
          [] format = "woff2" -> with(compressWoff2(ttf, fails), {"compressWoff2"}, TRUE)
          [] OTHER            -> with(Threw("TypeError: buffer is undefined"), {}, FALSE)

(***************************************************************************)
(* Inputs: well-formed SFNT files, and WOFF 1.0 files laid out as the WOFF *)
(* format prescribes (contiguous directory, payloads at 4-byte aligned     *)
(* offsets recorded in the directory).                                     *)
(***************************************************************************)
Flavors == {TrueTypeVersion, 1330926671}

Tags == {<<84, 69, 83, 84>>, <<104, 101, 97, 100>>}

Checksums == {0, 16909060}

TableDatas == {<<>>, <<7, 7, 7>>, <<7, 7, 7, 7, 7>>, <<0, 1, 2, 3, 4, 5, 6, 7, 8, 9>>}

TableRecords == [tag : Tags, checksum : Checksums, data : TableDatas]

Containers ==
    [flavor : Flavors,
     tables : UNION {[1..n -> TableRecords] : n \in 0..MaxTables}]

\* offset of table k when the payloads start at base and each is padded to 4 bytes
RECURSIVE PaddedOffset(_, _, _)
PaddedOffset(lengths, k, base) ==
    IF k = 1 THEN base
    ELSE PaddedOffset(lengths, k - 1, base)
         + lengths[k - 1] + Pad4(lengths[k - 1])

BuildSfnt(c) ==
    LET n    == Len(c.tables)
        lens == [k \in 1..n |-> Len(c.tables[k].data)]
        e    == FloorLog2(n)
    IN  UInt32BE(c.flavor) \o UInt16BE(n)
        \o (IF n = 0 THEN Zeros(6)
            ELSE UInt16BE(Pow2(e) * 16) \o UInt16BE(e) \o UInt16BE(n * 16 - Pow2(e) * 16))
        \o Concat([k \in 1..n |->
               c.tables[k].tag \o UInt32BE(c.tables[k].checksum)
               \o UInt32BE(PaddedOffset(lens, k, SfntHeaderSize + n * SfntEntrySize))
               \o UInt32BE(lens[k])])
        \o Concat([k \in 1..n |-> c.tables[k].data \o Zeros(Pad4(lens[k]))])

\* the bytes a WOFF file stores for a table: the stream when it is shorter
StoredBytes(data) ==
    IF Len(pakoDeflate(data)) < Len(data) THEN pakoDeflate(data) ELSE data

BuildWoff(c) ==
    LET n      == Len(c.tables)
        stored == [k \in 1..n |-> StoredBytes(c.tables[k].data)]
        lens   == [k \in 1..n |-> Len(stored[k])]
        body   == Concat([k \in 1..n |->
                      c.tables[k].tag
                      \o UInt32BE(PaddedOffset(lens, k, WoffHeaderSize + n * WoffEntrySize))
                      \o UInt32BE(lens[k])
                      \o UInt32BE(Len(c.tables[k].data))
                      \o UInt32BE(c.tables[k].checksum)])
                  \o Concat([k \in 1..n |-> stored[k] \o Zeros(Pad4(lens[k]))])
    IN  <<119, 79, 70, 70>> \o UInt32BE(c.flavor)
        \o UInt32BE(WoffHeaderSize + Len(body)) \o UInt16BE(n) \o Zeros(2)
        \o UInt32BE(Len(BuildSfnt(c))) \o <<0, 1, 0, 0>> \o Zeros(20)
        \o body

\* containers with exactly one table, for the variants below
OneTableContainers == {c \in Containers : Len(c.tables) = 1}

\* a well-formed SFNT file followed by bytes no table uses
TrailingSfnt(c) == BuildSfnt(c) \o Zeros(4)

\* a WOFF file whose directory records one byte more than the table has
OverstatedWoff(c) ==
    WriteUInt32BE(BuildWoff(c), Len(c.tables[1].data) + 1, WoffHeaderSize + 12)

\* a WOFF file cut to n bytes
\* the WOFF of a one-table container whose entry declares one byte less than
\* the table holds, so that compLength > origLength
UnderstatedWoff(c) ==
    WriteUInt32BE(BuildWoff(c), Len(c.tables[1].data) - 1, WoffHeaderSize + 12)

CutWoff(c, n) == Slice(BuildWoff(c), 0, n)

SfntInputs ==
    {BuildSfnt(c) : c \in Containers}
    \cup {TrailingSfnt(c) : c \in OneTableContainers}

WoffInputs ==
    {BuildWoff(c) : c \in Containers}
    \cup {OverstatedWoff(c) : c \in OneTableContainers}
    \cup {UnderstatedWoff(c) :
              c \in {d \in OneTableContainers : Len(d.tables[1].data) = 3}}
    \cup {CutWoff(c, WoffHeaderSize - 1) :
              c \in {d \in Containers : Len(d.tables) <= 1}}
    \cup {CutWoff(c, Len(BuildWoff(c)) - 4) :
              c \in {d \in OneTableContainers : Len(d.tables[1].data) > 0}}

(***************************************************************************)
(* Signature sniffing: detectFormat (utils), detectFontFormat and          *)
(* isValidFont (core/detector).  A JavaScript string is the sequence of    *)
(* its code points.  fontkit.create is a collaborator that either returns  *)
(* a font object or throws.                                                *)
(***************************************************************************)
FONT_SIGNATURES_WOFF == <<119, 79, 70, 70>>
FONT_SIGNATURES_WOFF2 == <<119, 79, 70, 50>>
FONT_SIGNATURES_OTTO == <<79, 84, 84, 79>>
FONT_SIGNATURES_TTF_TRUE == 1953658213
FONT_SIGNATURES_TTF_0100 == 65536

\* buffer.toString('utf8', start, end); the buffers sniffed here hold bytes
\* below 128, which decode to themselves, and 255, which is never valid
\* UTF-8 and decodes to U+FFFD
ToStringUtf8(buf, start, end) ==
    LET bytes == Slice(buf, start, end)
    IN  [i \in 1..Len(bytes) |-> IF bytes[i] < 128 THEN bytes[i] ELSE 65533]

NoFormat == "none"
SniffPending == [ok |-> FALSE, format |-> NoFormat, valid |-> FALSE, error |-> "not called"]
SniffReturned(f) == [ok |-> TRUE, format |-> f, valid |-> FALSE, error |-> "none"]
SniffReturnedBool(b) == [ok |-> TRUE, format |-> NoFormat, valid |-> b, error |-> "none"]
SniffThrew(e) == [ok |-> FALSE, format |-> NoFormat, valid |-> FALSE, error |-> e]

detectFormat(buffer) ==
    IF Len(buffer) < 4 THEN SniffReturned("unknown")
    ELSE LET signature == ToStringUtf8(buffer, 0, 4)
             magic     == ReadUInt32BE(buffer, 0)
         IN  IF signature = FONT_SIGNATURES_WOFF THEN SniffReturned("woff")
             ELSE IF signature = FONT_SIGNATURES_WOFF2 THEN SniffReturned("woff2")
             ELSE IF signature = FONT_SIGNATURES_OTTO THEN SniffReturned("otf")
             ELSE IF magic = FONT_SIGNATURES_TTF_0100 \/ magic = FONT_SIGNATURES_TTF_TRUE
                  THEN SniffReturned("ttf")
             ELSE SniffReturned("unknown")

\* the else-if chain reaches readUInt32BE(0) only when no string signature
\* matched; that read is outside the try block
detectFontFormat(buffer, parses) ==
    LET signature == ToStringUtf8(buffer, 0, 4)
        byString  == signature \in {FONT_SIGNATURES_WOFF, FONT_SIGNATURES_WOFF2,
                                    FONT_SIGNATURES_OTTO}
    IN  IF ~byString /\ ~CanRead(buffer, 0, 4)
        THEN SniffThrew("RangeError: out of range")
        ELSE LET format ==
                     IF signature = FONT_SIGNATURES_WOFF THEN "woff"
                     ELSE IF signature = FONT_SIGNATURES_WOFF2 THEN "woff2"
                     ELSE IF signature = FONT_SIGNATURES_OTTO THEN "otf"
                     ELSE IF ReadUInt32BE(buffer, 0) = 65536
                             \/ ReadUInt32BE(buffer, 0) = 1953658213
                          THEN "ttf"
                     ELSE "unknown"
             IN  IF parses THEN SniffReturned(format)
                 ELSE SniffThrew("cannot parse font file")

isValidFont(buffer) ==
    IF ~CanRead(buffer, 0, 4) THEN SniffThrew("RangeError: out of range")
    ELSE LET signature == ToStringUtf8(buffer, 0, 4)
             magic     == ReadUInt32BE(buffer, 0)
         IN  SniffReturnedBool(\/ signature = <<119, 79, 70, 70>>
                               \/ signature = <<119, 79, 70, 50>>
                               \/ signature = <<79, 84, 84, 79>>
                               \/ magic = 65536
                               \/ magic = 1953658213)

SniffIdle ==
    /\ sniffBuffer = NoBuffer
    /\ fontkitParses = FALSE
    /\ detected = SniffPending
    /\ fontInfo = SniffPending
    /\ validFont = SniffPending

(***************************************************************************)
(* The pipelines around convertFont: processFontFile of the build plugin   *)
(* and the per-file body of subsetCommand.  convertFont is the whole call  *)
(* of the section above; fontkit and Fontmin are collaborators.            *)
(***************************************************************************)
\* the loop of step 2 over outputFormats[i..]: the entries pushed to results
RECURSIVE ConvertFontResults(_, _, _, _)
ConvertFontResults(outs, i, ttf, fails) ==
    IF i > Len(outs) THEN <<>>
    ELSE LET r == ConvertFontEncode(outs[i], ttf, fails)
         IN  (IF r.ok
              THEN <<[format |-> outs[i], buffer |-> r.buffer, size |-> Len(r.buffer)]>>
              ELSE <<>>)
             \o ConvertFontResults(outs, i + 1, ttf, fails)

convertFont(options, fails) ==
    LET n == ConvertFontNormalize(options.inputFormat, options.inputBuffer, fails)
    IN  IF n.ok
        THEN [ok |-> TRUE, error |-> "none",
              results |-> ConvertFontResults(options.outputFormats, 1, n.buffer, fails)]
        ELSE [ok |-> FALSE, error |-> n.error, results |-> <<>>]

\* the font object fontkit.create returns; an empty name and a zero weight
\* class stand for the absent ones
FontkitFonts ==
    {[familyName |-> "", subfamilyName |-> "", usWeightClass |-> 0],
     [familyName |-> "Test", subfamilyName |-> "Bold", usWeightClass |-> 700]}

NoFont == [familyName |-> "", subfamilyName |-> "", usWeightClass |-> 0]

NoFontInfo == [ok |-> FALSE, format |-> NoFormat, family |-> "", style |-> "",
               weight |-> 0, error |-> "not called"]

\* detectFontFormat with the FontInfo it builds from the font object
detectFontFormatInfo(buffer, parses, font) ==
    LET d == detectFontFormat(buffer, parses)
    IN  IF d.ok
        THEN [ok |-> TRUE, format |-> d.format,
              family |-> IF font.familyName = "" THEN "Unknown" ELSE font.familyName,
              style |-> IF font.subfamilyName = "" THEN "Regular" ELSE font.subfamilyName,
              weight |-> IF font.usWeightClass = 0 THEN 400 ELSE font.usWeightClass,
              error |-> "none"]
        ELSE [NoFontInfo EXCEPT !.error = d.error]

\* what a run of Fontmin can give: an error, no output file, the contents it
\* was given, or a TrueType font holding the glyphs of the text
FontminRuns == {"err", "no files", "same contents", "truetype contents"}

SubsetContents == <<0, 1, 0, 0, 0, 0, 0, 0, 0, 0, 0, 0>>

subsetFont(buffer, chars, run) ==
    IF Len(chars) = 0 THEN Returned(buffer)
    ELSE CASE run = "err"               -> Threw("subset failed: fontmin error")
           [] run = "no files"          -> Threw("subset failed: no output file")
           [] run = "same contents"     -> Returned(buffer)
           [] run = "truetype contents" -> Returned(SubsetContents)

NoOptions == [inputBuffer |-> NoBuffer, inputFormat |-> NoFormat, outputFormats |-> <<>>]
NoOutcome == [ok |-> FALSE, error |-> "not called", results |-> <<>>]

PipeIdle ==
    /\ ppc = "off"
    /\ pipeline = "none"
    /\ fontBuffer = NoBuffer
    /\ text = <<>>
    /\ formats = <<>>
    /\ fontkitOk = FALSE
    /\ fontkitFont = NoFont
    /\ fontmin = "none"
    /\ fontInfoOfFile = NoFontInfo
    /\ processedBuffer = NoBuffer
    /\ convertOptions = NoOptions
    /\ convertOutcome = NoOutcome
    /\ written = <<>>
    /\ warnings = <<>>

(***************************************************************************)
(* MemoryCache (utils).  The Map is the sequence of its entries in         *)
(* insertion order; an entry is [key, value, expires].                     *)
(***************************************************************************)
MapHas(m, key) == \E i \in 1..Len(m) : m[i].key = key

MapGet(m, key) == m[CHOOSE i \in 1..Len(m) : m[i].key = key]

MapDelete(m, key) == SelectSeq(m, LAMBDA e : e.key # key)

\* Map.prototype.set: a present key keeps its place, a new one goes last
MapSet(m, key, item) ==
    IF MapHas(m, key)
    THEN [i \in 1..Len(m) |-> IF m[i].key = key THEN item ELSE m[i]]
    ELSE Append(m, item)

\* set(key, value, ttl): the empty string is a falsy oldestKey
MemoryCacheSet(m, max, t, key, value, ttl) ==
    LET room == IF Len(m) >= max /\ Len(m) > 0
                THEN LET oldestKey == m[1].key
                     IN  IF oldestKey # "" THEN MapDelete(m, oldestKey) ELSE m
                ELSE m
    IN  MapSet(room, key, [key |-> key, value |-> value, expires |-> t + ttl])

Undefined == [found |-> FALSE, value |-> 0]
Found(v) == [found |-> TRUE, value |-> v]

\* get that serves an entry whatever its expiry
MemoryCacheGet_NoExpiry(m, t, key) ==
    IF ~MapHas(m, key) THEN [returned |-> Undefined, cache |-> m]
    ELSE [returned |-> Found(MapGet(m, key).value), cache |-> m]

\* get(key): what it returns and what it leaves in the Map
MemoryCacheGet(m, t, key) ==
    IF ~MapHas(m, key) THEN [returned |-> Undefined, cache |-> m]
    ELSE LET item == MapGet(m, key)
         IN  IF t > item.expires
             THEN [returned |-> Undefined, cache |-> MapDelete(m, key)]
             ELSE [returned |-> Found(item.value), cache |-> m]

\* has(key): this.get(key) !== undefined
MemoryCacheHas(m, t, key) ==
    LET g == MemoryCacheGet(m, t, key)
    IN  [returned |-> g.returned.found, cache |-> g.cache]

\* a call: the method, its arguments, the item get looked up and the result
NoCall == [op |-> "none", key |-> "", value |-> 0, ttl |-> 0,
           hadItem |-> FALSE, itemExpires |-> 0, found |-> FALSE, returned |-> 0]

CacheIdle ==
    /\ cache = <<>>
    /\ maxSize = 0
    /\ now = 0
    /\ lastCall = NoCall

(***************************************************************************)
(* batchProcess (utils).  A promise of the executing array is named by the *)
(* index of its item.                                                      *)
(***************************************************************************)
Unset == -1

\* what fn(items[i], i) resolves to
FnValue(its, i) == its[i + 1] + i

\* executing.splice(executing.findIndex(p => p === promise), 1)
SpliceOut(exec, promise) ==
    LET at == CHOOSE k \in 1..Len(exec) : exec[k] = promise /\ \A j \in 1..(k - 1) : exec[j] # promise
    IN  SubSeq(exec, 1, at - 1) \o SubSeq(exec, at + 1, Len(exec))

BatchIdle ==
    /\ bpc = "off"
    /\ items = <<>>
    /\ concurrency = 0
    /\ loopIndex = 0
    /\ executing = <<>>
    /\ started = {}
    /\ settled = {}
    /\ batchResults = <<>>

(***************************************************************************)
(* extractUniqueChars (subsetter, utils): [...new Set(text)].join('').     *)
(* A string is the sequence of its UTF-16 code units; iterating it yields  *)
(* its code points, a surrogate pair as one element and an unpaired        *)
(* surrogate as an element of its own.                                     *)
(***************************************************************************)
IsHighSurrogate(u) == u >= 55296 /\ u <= 56319
IsLowSurrogate(u) == u >= 56320 /\ u <= 57343

\* String.prototype[Symbol.iterator]: the elements, each a one- or two-unit string
RECURSIVE StringIterator(_)
StringIterator(str) ==
    IF str = <<>> THEN <<>>
    ELSE IF Len(str) >= 2 /\ IsHighSurrogate(str[1]) /\ IsLowSurrogate(str[2])
         THEN <<SubSeq(str, 1, 2)>> \o StringIterator(SubSeq(str, 3, Len(str)))
         ELSE <<SubSeq(str, 1, 1)>> \o StringIterator(SubSeq(str, 2, Len(str)))

\* [...new Set(elements)]: the elements in order of first insertion
RECURSIVE NewSet(_)
NewSet(elements) ==
    IF elements = <<>> THEN <<>>
    ELSE LET front == NewSet(SubSeq(elements, 1, Len(elements) - 1))
             last  == elements[Len(elements)]
         IN  IF \E i \in 1..Len(front) : front[i] = last THEN front
             ELSE Append(front, last)

\* Array.prototype.join('')
RECURSIVE Join(_)
Join(elements) ==
    IF elements = <<>> THEN <<>> ELSE elements[1] \o Join(Tail(elements))

extractUniqueChars(str) == Join(NewSet(StringIterator(str)))

NoText == <<-1>>

TextIdle ==
    /\ tpc = "off"
    /\ inputText = NoText
    /\ unique = NoText
    /\ uniqueAgain = NoText

(***************************************************************************)
(* The codec harness: compressWoff on an SFNT input followed by            *)
(* decompressWoff on what it returned, and decompressWoff on a WOFF input. *)
(***************************************************************************)
ConvertIdle ==
    /\ pc = "idle"
    /\ inputBuffer = NoBuffer
    /\ inputFormat = "none"
    /\ outputFormats = <<>>
    /\ ttfBuffer = NoBuffer
    /\ ttfRef = NoRef
    /\ results = <<>>
    /\ fmtIdx = 0
    /\ thrown = "none"
    /\ calls = {}
    /\ consoleErrors = <<>>
    /\ failing = {}

CodecIdle ==
    /\ cpc = "off"
    /\ sfntBuffer = NoBuffer
    /\ woffResult = Threw("not called")
    /\ woffBuffer = NoBuffer
    /\ sfntResult = Threw("not called")

CodecInit ==
    /\ cpc = "start"
    /\ woffResult = Threw("not called")
    /\ sfntResult = Threw("not called")
    /\ \/ sfntBuffer \in SfntInputs /\ woffBuffer = NoBuffer
       \/ woffBuffer \in WoffInputs /\ sfntBuffer = NoBuffer
    /\ ConvertIdle
    /\ SniffIdle
    /\ PipeIdle
    /\ CacheIdle
    /\ BatchIdle
    /\ TextIdle

CompressWoffCall ==
    /\ cpc = "start"
    /\ sfntBuffer # NoBuffer
    /\ woffResult' = compressWoff(sfntBuffer)
    /\ cpc' = "encoded"
    /\ UNCHANGED <<sfntBuffer, woffBuffer, sfntResult>>
    /\ UNCHANGED convertVars
    /\ UNCHANGED sniffVars
    /\ UNCHANGED pipeVars
    /\ UNCHANGED <<cacheVars, batchVars, textVars>>

DecompressWoffOfEncoded ==
    /\ cpc = "encoded"
    /\ woffResult.ok
    /\ woffBuffer' = woffResult.buffer
    /\ sfntResult' = decompressWoff(woffResult.buffer)
    /\ cpc' = "decoded"
    /\ UNCHANGED <<sfntBuffer, woffResult>>
    /\ UNCHANGED convertVars
    /\ UNCHANGED sniffVars
    /\ UNCHANGED pipeVars
    /\ UNCHANGED <<cacheVars, batchVars, textVars>>

DecompressWoffCall ==
    /\ cpc = "start"
    /\ woffBuffer # NoBuffer
    /\ sfntResult' = decompressWoff(woffBuffer)
    /\ cpc' = "decoded"
    /\ UNCHANGED <<sfntBuffer, woffResult, woffBuffer>>
    /\ UNCHANGED convertVars
    /\ UNCHANGED sniffVars
    /\ UNCHANGED pipeVars
    /\ UNCHANGED <<cacheVars, batchVars, textVars>>

CodecNext == CompressWoffCall \/ DecompressWoffOfEncoded \/ DecompressWoffCall

SpecCodec == CodecInit /\ [][CodecNext]_vars

(***************************************************************************)
(* The calls of convertFont the model makes.                               *)
(***************************************************************************)
\* one-table and empty containers, for the buffers handed to convertFont
SmallContainers ==
    {c \in Containers :
        /\ Len(c.tables) <= 1
        /\ \A k \in 1..Len(c.tables) :
              /\ c.tables[k].tag = <<84, 69, 83, 84>>
              /\ c.tables[k].checksum # 0
              /\ Len(c.tables[k].data) >= 5
        /\ Len(c.tables) = 0 => c.flavor = TrueTypeVersion}

\* buffers cut short: an empty file, an SFNT cut inside its directory, and a
\* WOFF cut inside its directory
MalformedBuffers ==
    {<<>>}
    \cup {Slice(BuildSfnt(c), 0, 20) : c \in {d \in SmallContainers : Len(d.tables) = 1}}
    \cup {Slice(BuildWoff(c), 0, 50) : c \in {d \in SmallContainers : Len(d.tables) = 1}}

ConvertBuffers ==
    {BuildSfnt(c) : c \in SmallContainers}
    \cup {BuildWoff(c) : c \in SmallContainers}
    \cup {<<119, 79, 70, 50>> \o BuildSfnt(c) :
              c \in {d \in SmallContainers : d.flavor = TrueTypeVersion}}
    \cup MalformedBuffers

FontFormats == {"ttf", "otf", "woff", "woff2", "unknown"}

\* OutputFormat, and one string outside it that a caller can still pass
RequestedFormats == {"ttf", "woff", "woff2", "eot"}

OutputFormatLists ==
    {fs \in UNION {[1..n -> RequestedFormats] : n \in 0..MaxOutputs} :
        \A i, j \in 1..Len(fs) : fs[i] = fs[j] => i = j}

Collaborators == {"convertOtfToTtf", "decompressWoff2", "compressWoff2"}

Init ==
    /\ ConvertIdle
    /\ CodecIdle
    /\ SniffIdle
    /\ PipeIdle
    /\ CacheIdle
    /\ BatchIdle
    /\ TextIdle

\* a caller invokes convertFont(options); the environment fixes which
\* collaborators will throw
Call ==
    /\ pc = "idle"
    /\ \E buf \in ConvertBuffers, fmt \in FontFormats, outs \in OutputFormatLists,
          fails \in {{}} \cup {{c} : c \in Collaborators} :
          /\ "convertOtfToTtf" \in fails => fmt = "otf"
          /\ "decompressWoff2" \in fails => fmt = "woff2"
          /\ "compressWoff2" \in fails => \E i \in 1..Len(outs) : outs[i] = "woff2"
          /\ inputBuffer' = buf
          /\ inputFormat' = fmt
          /\ outputFormats' = outs
          /\ failing' = fails
    /\ pc' = "normalize"
    /\ UNCHANGED <<ttfBuffer, ttfRef, results, fmtIdx, thrown, calls, consoleErrors>>
    /\ UNCHANGED codecVars
    /\ UNCHANGED sniffVars
    /\ UNCHANGED pipeVars
    /\ UNCHANGED <<cacheVars, batchVars, textVars>>

\* lines 15-37: normalise the input to the intermediate buffer, or reject
Normalize ==
    /\ pc = "normalize"
    /\ LET r == ConvertFontNormalize(inputFormat, inputBuffer, failing)
       IN  /\ calls' = calls \cup r.called
           /\ IF r.ok
              THEN /\ ttfBuffer' = r.buffer
                   /\ ttfRef' = IF r.fresh THEN NormalizedRef ELSE InputRef
                   /\ pc' = "encode"
                   /\ fmtIdx' = 1
                   /\ UNCHANGED thrown
              ELSE /\ thrown' = r.error
                   /\ pc' = "rejected"
                   /\ UNCHANGED <<ttfBuffer, ttfRef, fmtIdx>>
    /\ UNCHANGED <<inputBuffer, inputFormat, outputFormats, results, consoleErrors, failing>>
    /\ UNCHANGED codecVars
    /\ UNCHANGED sniffVars
    /\ UNCHANGED pipeVars
    /\ UNCHANGED <<cacheVars, batchVars, textVars>>

\* the iteration without its try/catch: an encoder's error rejects the call
EncodeFormat_Rethrow ==
    /\ pc = "encode"
    /\ fmtIdx <= Len(outputFormats)
    /\ LET format == outputFormats[fmtIdx]
           r      == ConvertFontEncode(format, ttfBuffer, failing)
       IN  /\ calls' = calls \cup r.called
           /\ IF r.ok
              THEN /\ results' = Append(results,
                                    [format |-> format, buffer |-> r.buffer,
                                     size |-> Len(r.buffer),
                                     ref |-> IF r.fresh THEN EncodedRef(fmtIdx)
                                             ELSE ttfRef])
                   /\ fmtIdx' = fmtIdx + 1
                   /\ UNCHANGED <<consoleErrors, pc, thrown>>
              ELSE /\ thrown' = r.error
                   /\ pc' = "rejected"
                   /\ UNCHANGED <<results, consoleErrors, fmtIdx>>
    /\ UNCHANGED <<inputBuffer, inputFormat, outputFormats, ttfBuffer, ttfRef, failing>>
    /\ UNCHANGED codecVars
    /\ UNCHANGED sniffVars
    /\ UNCHANGED pipeVars
    /\ UNCHANGED <<cacheVars, batchVars, textVars>>

\* the iteration with an encoder that leaves its output in ttfBuffer
EncodeFormat_InPlace ==
    /\ pc = "encode"
    /\ fmtIdx <= Len(outputFormats)
    /\ LET format == outputFormats[fmtIdx]
           r      == ConvertFontEncode(format, ttfBuffer, failing)
       IN  /\ calls' = calls \cup r.called
           /\ IF r.ok
              THEN /\ results' = Append(results,
                                    [format |-> format, buffer |-> r.buffer,
                                     size |-> Len(r.buffer),
                                     ref |-> IF r.fresh THEN EncodedRef(fmtIdx)
                                             ELSE ttfRef])
                   /\ ttfBuffer' = r.buffer
                   /\ UNCHANGED consoleErrors
              ELSE /\ consoleErrors' = Append(consoleErrors, format)
                   /\ UNCHANGED <<results, ttfBuffer>>
    /\ fmtIdx' = fmtIdx + 1
    /\ UNCHANGED <<pc, inputBuffer, inputFormat, outputFormats, ttfRef, thrown, failing>>
    /\ UNCHANGED codecVars
    /\ UNCHANGED sniffVars
    /\ UNCHANGED pipeVars
    /\ UNCHANGED <<cacheVars, batchVars, textVars>>

\* lines 42-66: one iteration of the loop over outputFormats
EncodeFormat ==
    /\ pc = "encode"
    /\ fmtIdx <= Len(outputFormats)
    /\ LET format == outputFormats[fmtIdx]
           r      == ConvertFontEncode(format, ttfBuffer, failing)
       IN  /\ calls' = calls \cup r.called
           /\ IF r.ok
              THEN /\ results' = Append(results,
                                    [format |-> format, buffer |-> r.buffer,
                                     size |-> Len(r.buffer),
                                     ref |-> IF r.fresh THEN EncodedRef(fmtIdx)
                                             ELSE ttfRef])
                   /\ UNCHANGED consoleErrors
              ELSE /\ consoleErrors' = Append(consoleErrors, format)
                   /\ UNCHANGED results
    /\ fmtIdx' = fmtIdx + 1
    /\ UNCHANGED <<pc, inputBuffer, inputFormat, outputFormats, ttfBuffer, ttfRef, thrown,
                   failing>>
    /\ UNCHANGED codecVars
    /\ UNCHANGED sniffVars
    /\ UNCHANGED pipeVars
    /\ UNCHANGED <<cacheVars, batchVars, textVars>>

\* line 68: the loop is over, the promise resolves with results
Return ==
    /\ pc = "encode"
    /\ fmtIdx > Len(outputFormats)
    /\ pc' = "resolved"
    /\ UNCHANGED <<inputBuffer, inputFormat, outputFormats, ttfBuffer, ttfRef, results,
                   fmtIdx, thrown, calls, consoleErrors, failing>>
    /\ UNCHANGED codecVars
    /\ UNCHANGED sniffVars
    /\ UNCHANGED pipeVars
    /\ UNCHANGED <<cacheVars, batchVars, textVars>>

Next == Call \/ Normalize \/ EncodeFormat \/ Return

Spec == Init /\ [][Next]_vars

(***************************************************************************)
(* The sniffing harness: the three functions applied, in any order, to one *)
(* buffer.                                                                 *)
(***************************************************************************)
SniffPrefixes ==
    {<<119, 79, 70, 70>>, <<119, 79, 70, 50>>, <<79, 84, 84, 79>>,
     <<0, 1, 0, 0>>, <<116, 114, 117, 101>>,
     <<116, 116, 99, 102>>, <<97, 98, 99, 100>>, <<0, 1, 0, 1>>,
     <<0, 0, 0, 0>>, <<119, 79, 70, 102>>, <<119, 79, 70, 255>>,
     <<84, 82, 85, 69>>}
SniffTails == {<<>>, <<0, 0, 0, 1>>}
ShortBuffers == {<<>>, <<119>>, <<119, 79, 70>>, <<0, 1, 0>>, <<79, 84>>}
SniffBuffers == {p \o t : p \in SniffPrefixes, t \in SniffTails} \cup ShortBuffers

SniffInit ==
    /\ sniffBuffer \in SniffBuffers
    /\ fontkitParses \in BOOLEAN
    /\ detected = SniffPending
    /\ fontInfo = SniffPending
    /\ validFont = SniffPending
    /\ ConvertIdle
    /\ CodecIdle
    /\ PipeIdle
    /\ CacheIdle
    /\ BatchIdle
    /\ TextIdle

DetectFormatCall ==
    /\ detected = SniffPending
    /\ detected' = detectFormat(sniffBuffer)
    /\ UNCHANGED <<sniffBuffer, fontkitParses, fontInfo, validFont>>
    /\ UNCHANGED <<codecVars, convertVars>>
    /\ UNCHANGED pipeVars
    /\ UNCHANGED <<cacheVars, batchVars, textVars>>

DetectFontFormatCall ==
    /\ fontInfo = SniffPending
    /\ fontInfo' = detectFontFormat(sniffBuffer, fontkitParses)
    /\ UNCHANGED <<sniffBuffer, fontkitParses, detected, validFont>>
    /\ UNCHANGED <<codecVars, convertVars>>
    /\ UNCHANGED pipeVars
    /\ UNCHANGED <<cacheVars, batchVars, textVars>>

IsValidFontCall ==
    /\ validFont = SniffPending
    /\ validFont' = isValidFont(sniffBuffer)
    /\ UNCHANGED <<sniffBuffer, fontkitParses, detected, fontInfo>>
    /\ UNCHANGED <<codecVars, convertVars>>
    /\ UNCHANGED pipeVars
    /\ UNCHANGED <<cacheVars, batchVars, textVars>>

SniffNext == DetectFormatCall \/ DetectFontFormatCall \/ IsValidFontCall

SpecSniff == SniffInit /\ [][SniffNext]_vars

(***************************************************************************)
(* The pipeline harness: one font file taken through processFontFile or    *)
(* through the loop body of subsetCommand.                                 *)
(***************************************************************************)
PipeBuffers ==
    {BuildSfnt(c) : c \in {d \in SmallContainers : Len(d.tables) = 1}}
    \cup {BuildWoff(c) : c \in {d \in SmallContainers :
                                   Len(d.tables) = 1 /\ d.flavor = TrueTypeVersion}}
    \cup {<<97, 98, 99, 100, 0, 0, 0, 0>>, <<0, 1>>}

PipeTexts == {<<>>, <<97, 98>>}

PipeFormatLists == {<<"woff">>, <<"ttf", "woff2">>, <<"eot">>}

PipeInit ==
    /\ ppc = "start"
    /\ pipeline \in {"processFontFile", "subsetCommand"}
    /\ fontBuffer \in PipeBuffers
    /\ text \in PipeTexts
    /\ formats \in PipeFormatLists
    /\ fontkitOk \in BOOLEAN
    /\ fontkitFont \in FontkitFonts
    /\ ~fontkitOk => fontkitFont = NoFont
    /\ fontmin \in FontminRuns
    /\ Len(text) = 0 => fontmin = "same contents"
    /\ fontInfoOfFile = NoFontInfo
    /\ processedBuffer = NoBuffer
    /\ convertOptions = NoOptions
    /\ convertOutcome = NoOutcome
    /\ written = <<>>
    /\ warnings = <<>>
    /\ ConvertIdle
    /\ CodecIdle
    /\ SniffIdle
    /\ CacheIdle
    /\ BatchIdle
    /\ TextIdle

\* part_004:122, subset.ts:60: a throw leaves through the enclosing catch
PipeDetect ==
    /\ ppc = "start"
    /\ LET info == detectFontFormatInfo(fontBuffer, fontkitOk, fontkitFont)
       IN  /\ fontInfoOfFile' = info
           /\ ppc' = IF info.ok THEN "detected" ELSE "failed"
    /\ UNCHANGED <<pipeline, fontBuffer, text, formats, fontkitOk, fontkitFont, fontmin,
                   processedBuffer, convertOptions, convertOutcome, written, warnings>>
    /\ UNCHANGED <<codecVars, convertVars, sniffVars>>
    /\ UNCHANGED <<cacheVars, batchVars, textVars>>

\* part_004:126-138: subsetting inside its own try/catch, skipped without text
PipeSubsetPlugin ==
    /\ ppc = "detected"
    /\ pipeline = "processFontFile"
    /\ IF Len(text) > 0
       THEN LET r == subsetFont(fontBuffer, text, fontmin)
            IN  IF r.ok
                THEN processedBuffer' = r.buffer /\ UNCHANGED warnings
                ELSE /\ processedBuffer' = fontBuffer
                     /\ warnings' = Append(warnings, "subset failed, using original font")
       ELSE processedBuffer' = fontBuffer /\ UNCHANGED warnings
    /\ ppc' = "subsetted"
    /\ UNCHANGED <<pipeline, fontBuffer, text, formats, fontkitOk, fontkitFont, fontmin,
                   fontInfoOfFile, convertOptions, convertOutcome, written>>
    /\ UNCHANGED <<codecVars, convertVars, sniffVars>>
    /\ UNCHANGED <<cacheVars, batchVars, textVars>>

\* subset.ts:63-66: subsetting with no try/catch of its own
PipeSubsetCommand ==
    /\ ppc = "detected"
    /\ pipeline = "subsetCommand"
    /\ LET r == subsetFont(fontBuffer, text, fontmin)
       IN  IF r.ok
           THEN processedBuffer' = r.buffer /\ ppc' = "subsetted"
           ELSE UNCHANGED processedBuffer /\ ppc' = "failed"
    /\ UNCHANGED <<pipeline, fontBuffer, text, formats, fontkitOk, fontkitFont, fontmin,
                   fontInfoOfFile, convertOptions, convertOutcome, written, warnings>>
    /\ UNCHANGED <<codecVars, convertVars, sniffVars>>
    /\ UNCHANGED <<cacheVars, batchVars, textVars>>

\* part_004:141-145, subset.ts:72-76
PipeConvert ==
    /\ ppc = "subsetted"
    /\ LET options == [inputBuffer |-> processedBuffer,
                       inputFormat |-> fontInfoOfFile.format,
                       outputFormats |-> formats]
           outcome == convertFont(options, {})
       IN  /\ convertOptions' = options
           /\ convertOutcome' = outcome
           /\ ppc' = IF outcome.ok THEN "converted" ELSE "failed"
    /\ UNCHANGED <<pipeline, fontBuffer, text, formats, fontkitOk, fontkitFont, fontmin,
                   fontInfoOfFile, processedBuffer, written, warnings>>
    /\ UNCHANGED <<codecVars, convertVars, sniffVars>>
    /\ UNCHANGED <<cacheVars, batchVars, textVars>>

\* part_004:147-167, subset.ts:82-93: one file per result
PipeWrite ==
    /\ ppc = "converted"
    /\ IF pipeline = "processFontFile" /\ Len(convertOutcome.results) = 0
       THEN /\ warnings' = Append(warnings, "no output format generated")
            /\ UNCHANGED written
       ELSE /\ written' = [j \in 1..Len(convertOutcome.results) |->
                              convertOutcome.results[j].format]
            /\ UNCHANGED warnings
    /\ ppc' = "done"
    /\ UNCHANGED <<pipeline, fontBuffer, text, formats, fontkitOk, fontkitFont, fontmin,
                   fontInfoOfFile, processedBuffer, convertOptions, convertOutcome>>
    /\ UNCHANGED <<codecVars, convertVars, sniffVars>>
    /\ UNCHANGED <<cacheVars, batchVars, textVars>>

PipeNext ==
    PipeDetect \/ PipeSubsetPlugin \/ PipeSubsetCommand \/ PipeConvert \/ PipeWrite

SpecPipe == PipeInit /\ [][PipeNext]_vars

(***************************************************************************)
(* The cache harness: calls on one MemoryCache while the clock advances.   *)
(***************************************************************************)
CacheSizes == {1, 2}
CacheKeys == {"", "a", "b"}
CacheValues == {1, 2}
CacheTtls == {0, 1}

CacheInit ==
    /\ cache = <<>>
    /\ maxSize \in CacheSizes
    /\ now = 0
    /\ lastCall = NoCall
    /\ ConvertIdle
    /\ CodecIdle
    /\ SniffIdle
    /\ PipeIdle
    /\ BatchIdle
    /\ TextIdle

\* the item get(key) finds in the Map, for the record of the call
ItemSeen(key) ==
    IF MapHas(cache, key)
    THEN [hadItem |-> TRUE, itemExpires |-> MapGet(cache, key).expires]
    ELSE [hadItem |-> FALSE, itemExpires |-> 0]

CacheSetCall ==
    /\ maxSize > 0
    /\ \E key \in CacheKeys, value \in CacheValues, ttl \in CacheTtls :
          /\ cache' = MemoryCacheSet(cache, maxSize, now, key, value, ttl)
          /\ lastCall' = [NoCall EXCEPT !.op = "set", !.key = key, !.value = value,
                                        !.ttl = ttl]
    /\ UNCHANGED <<maxSize, now>>
    /\ UNCHANGED <<codecVars, convertVars, sniffVars, pipeVars, batchVars, textVars>>

CacheGetCall ==
    /\ maxSize > 0
    /\ \E key \in CacheKeys :
          LET g == MemoryCacheGet(cache, now, key)
          IN  /\ cache' = g.cache
              /\ lastCall' = [NoCall EXCEPT !.op = "get", !.key = key,
                                            !.hadItem = ItemSeen(key).hadItem,
                                            !.itemExpires = ItemSeen(key).itemExpires,
                                            !.found = g.returned.found,
                                            !.returned = g.returned.value]
    /\ UNCHANGED <<maxSize, now>>
    /\ UNCHANGED <<codecVars, convertVars, sniffVars, pipeVars, batchVars, textVars>>

CacheHasCall ==
    /\ maxSize > 0
    /\ \E key \in CacheKeys :
          LET h == MemoryCacheHas(cache, now, key)
          IN  /\ cache' = h.cache
              /\ lastCall' = [NoCall EXCEPT !.op = "has", !.key = key,
                                            !.hadItem = ItemSeen(key).hadItem,
                                            !.itemExpires = ItemSeen(key).itemExpires,
                                            !.found = h.returned]
    /\ UNCHANGED <<maxSize, now>>
    /\ UNCHANGED <<codecVars, convertVars, sniffVars, pipeVars, batchVars, textVars>>

CacheDeleteCall ==
    /\ maxSize > 0
    /\ \E key \in CacheKeys :
          /\ cache' = MapDelete(cache, key)
          /\ lastCall' = [NoCall EXCEPT !.op = "delete", !.key = key]
    /\ UNCHANGED <<maxSize, now>>
    /\ UNCHANGED <<codecVars, convertVars, sniffVars, pipeVars, batchVars, textVars>>

CacheClearCall ==
    /\ maxSize > 0
    /\ cache' = <<>>
    /\ lastCall' = [NoCall EXCEPT !.op = "clear"]
    /\ UNCHANGED <<maxSize, now>>
    /\ UNCHANGED <<codecVars, convertVars, sniffVars, pipeVars, batchVars, textVars>>

\* time passes between two calls
CacheTick ==
    /\ maxSize > 0
    /\ now < MaxClock
    /\ now' = now + 1
    /\ lastCall' = NoCall
    /\ UNCHANGED <<cache, maxSize>>
    /\ UNCHANGED <<codecVars, convertVars, sniffVars, pipeVars, batchVars, textVars>>

CacheNext ==
    \/ CacheSetCall \/ CacheGetCall \/ CacheHasCall
    \/ CacheDeleteCall \/ CacheClearCall \/ CacheTick

SpecCache == CacheInit /\ [][CacheNext]_vars

(***************************************************************************)
(* The text harness: extractUniqueChars applied to a text and then to its  *)
(* own result.                                                             *)
(***************************************************************************)
\* 'a', 'b', the high surrogate D83D and the low surrogate DE00
CodeUnits == {97, 98, 55357, 56832}

Texts == UNION {[1..n -> CodeUnits] : n \in 0..MaxTextLen}

TextInit ==
    /\ tpc = "start"
    /\ inputText \in Texts
    /\ unique = NoText
    /\ uniqueAgain = NoText
    /\ ConvertIdle
    /\ CodecIdle
    /\ SniffIdle
    /\ PipeIdle
    /\ CacheIdle
    /\ BatchIdle

ExtractUniqueCharsCall ==
    /\ tpc = "start"
    /\ unique' = extractUniqueChars(inputText)
    /\ tpc' = "once"
    /\ UNCHANGED <<inputText, uniqueAgain>>
    /\ UNCHANGED <<codecVars, convertVars, sniffVars, pipeVars, cacheVars, batchVars>>

ExtractUniqueCharsAgain ==
    /\ tpc = "once"
    /\ uniqueAgain' = extractUniqueChars(unique)
    /\ tpc' = "twice"
    /\ UNCHANGED <<inputText, unique>>
    /\ UNCHANGED <<codecVars, convertVars, sniffVars, pipeVars, cacheVars, batchVars>>

TextNext == ExtractUniqueCharsCall \/ ExtractUniqueCharsAgain

SpecText == TextInit /\ [][TextNext]_vars

(***************************************************************************)
(* The batch harness: one call of batchProcess, with the promises of fn    *)
(* resolving in any order.                                                 *)
(***************************************************************************)
ItemValues == {10}
Concurrencies == {1, 2, 3}

BatchInit ==
    /\ bpc = "loop"
    /\ items \in UNION {[1..n -> ItemValues] : n \in 0..MaxItems}
    /\ concurrency \in Concurrencies
    /\ loopIndex = 0
    /\ executing = <<>>
    /\ started = {}
    /\ settled = {}
    /\ batchResults = [i \in 1..Len(items) |-> Unset]
    /\ ConvertIdle
    /\ CodecIdle
    /\ SniffIdle
    /\ PipeIdle
    /\ CacheIdle
    /\ TextIdle

\* part_004:691-698: fn is called for item i and its promise pushed; the loop
\* goes on when fewer than concurrency promises are in executing, else awaits
BatchStart ==
    /\ bpc = "loop"
    /\ loopIndex < Len(items)
    /\ started' = started \cup {loopIndex}
    /\ executing' = Append(executing, loopIndex)
    /\ IF Len(executing) + 1 >= concurrency
       THEN bpc' = "race" /\ UNCHANGED loopIndex
       ELSE bpc' = "loop" /\ loopIndex' = loopIndex + 1
    /\ UNCHANGED <<items, concurrency, settled, batchResults>>
    /\ UNCHANGED <<codecVars, convertVars, sniffVars, pipeVars, cacheVars, textVars>>

\* part_004:699-703: Promise.race resumes once a promise of executing has
\* settled; the promise of this iteration is spliced out
BatchRaceResumes ==
    /\ bpc = "race"
    /\ \E k \in 1..Len(executing) : executing[k] \in settled
    /\ executing' = SpliceOut(executing, loopIndex)
    /\ loopIndex' = loopIndex + 1
    /\ bpc' = "loop"
    /\ UNCHANGED <<items, concurrency, started, settled, batchResults>>
    /\ UNCHANGED <<codecVars, convertVars, sniffVars, pipeVars, cacheVars, textVars>>

\* part_004:691: the loop condition fails
BatchLoopEnds ==
    /\ bpc = "loop"
    /\ loopIndex >= Len(items)
    /\ bpc' = "all"
    /\ UNCHANGED <<items, concurrency, loopIndex, executing, started, settled,
                   batchResults>>
    /\ UNCHANGED <<codecVars, convertVars, sniffVars, pipeVars, cacheVars, textVars>>

\* part_004:707-708: Promise.all resumes once all of executing have settled
BatchReturns ==
    /\ bpc = "all"
    /\ \A k \in 1..Len(executing) : executing[k] \in settled
    /\ bpc' = "returned"
    /\ UNCHANGED <<items, concurrency, loopIndex, executing, started, settled,
                   batchResults>>
    /\ UNCHANGED <<codecVars, convertVars, sniffVars, pipeVars, cacheVars, textVars>>

\* part_004:692-694: the promise of a started item resolves and its callback
\* stores the result
BatchSettles ==
    /\ bpc \in {"loop", "race", "all", "returned"}
    /\ \E i \in started \ settled :
          /\ settled' = settled \cup {i}
          /\ batchResults' = [batchResults EXCEPT ![i + 1] = FnValue(items, i)]
    /\ UNCHANGED <<bpc, items, concurrency, loopIndex, executing, started>>
    /\ UNCHANGED <<codecVars, convertVars, sniffVars, pipeVars, cacheVars, textVars>>

BatchNext ==
    BatchStart \/ BatchRaceResumes \/ BatchLoopEnds \/ BatchReturns \/ BatchSettles

SpecBatch == BatchInit /\ [][BatchNext]_vars

(***************************************************************************)
(* Reading containers back, for the properties below.                      *)
(***************************************************************************)
\* the directory of an SFNT buffer, with each table's bytes
SfntTables(buf) ==
    [k \in 1..ReadUInt16BE(buf, 4) |->
        LET at == SfntHeaderSize + (k - 1) * SfntEntrySize
        IN  [tag      |-> Slice(buf, at, at + 4),
             checksum |-> ReadUInt32BE(buf, at + 4),
             offset   |-> ReadUInt32BE(buf, at + 8),
             length   |-> ReadUInt32BE(buf, at + 12),
             data     |-> Slice(buf, ReadUInt32BE(buf, at + 8),
                                ReadUInt32BE(buf, at + 8) + ReadUInt32BE(buf, at + 12))]]

\* the (tag, checksum, data) triples of an SFNT buffer, in directory order
SfntContent(buf) ==
    [k \in 1..ReadUInt16BE(buf, 4) |->
        [tag      |-> SfntTables(buf)[k].tag,
         checksum |-> SfntTables(buf)[k].checksum,
         data     |-> SfntTables(buf)[k].data]]

\* the contiguous directory of a WOFF buffer: entry k at 44 + 20 * (k - 1)
WoffEntries(buf) ==
    [k \in 1..ReadUInt16BE(buf, 12) |->
        LET at == WoffHeaderSize + (k - 1) * WoffEntrySize
        IN  [tag          |-> Slice(buf, at, at + 4),
             offset       |-> ReadUInt32BE(buf, at + 4),
             compLength   |-> ReadUInt32BE(buf, at + 8),
             origLength   |-> ReadUInt32BE(buf, at + 12),
             origChecksum |-> ReadUInt32BE(buf, at + 16)]]

\* where the stored bytes of table k really start in a file whose payloads
\* follow the directory back to back
RECURSIVE PackedPos(_, _)
PackedPos(buf, k) ==
    IF k = 1 THEN WoffHeaderSize + ReadUInt16BE(buf, 12) * WoffEntrySize
    ELSE PackedPos(buf, k - 1) + WoffEntries(buf)[k - 1].compLength

Encoded == cpc \in {"encoded", "decoded"} /\ sfntBuffer # NoBuffer

RoundTripped == cpc = "decoded" /\ sfntBuffer # NoBuffer

Decoded == cpc = "decoded"

(***************************************************************************)
(* Properties of convertFont.                                              *)
(***************************************************************************)
Finished == pc \in {"resolved", "rejected"}

\* step 1 produced the intermediate buffer
Normalized == ttfBuffer # NoBuffer

\* header, directory and every table lie inside the buffer
WellFormedSfnt(buf) ==
    /\ CanRead(buf, 0, SfntHeaderSize)
    /\ CanRead(buf, SfntHeaderSize, ReadUInt16BE(buf, 4) * SfntEntrySize)
    /\ \A k \in 1..ReadUInt16BE(buf, 4) :
          SfntTables(buf)[k].offset + SfntTables(buf)[k].length <= Len(buf)

\* signature, header, directory and every stored table lie inside the buffer
WellFormedWoff(buf) ==
    /\ Slice(buf, 0, 4) = <<119, 79, 70, 70>>
    /\ CanRead(buf, 0, WoffHeaderSize)
    /\ CanRead(buf, WoffHeaderSize, ReadUInt16BE(buf, 12) * WoffEntrySize)
    /\ \A k \in 1..ReadUInt16BE(buf, 12) :
          WoffEntries(buf)[k].offset + WoffEntries(buf)[k].compLength <= Len(buf)

\* the input container is structurally broken for the declared format
MalformedInput ==
    \/ inputFormat = "ttf" /\ ~WellFormedSfnt(inputBuffer)
    \/ inputFormat = "woff" /\ ~WellFormedWoff(inputBuffer)

\* position j of results answers the request at position i of outputFormats
Answers(i, j) == results[j].format = outputFormats[i]

(***************************************************************************)
(* C1 (as claimed): decoding the WOFF produced from an SFNT with at least  *)
(* one table gives back the same flavor and the same (tag, data, checksum) *)
(* sequence.                                                               *)
(***************************************************************************)
C1_RoundTrip ==
    (RoundTripped /\ ReadUInt16BE(sfntBuffer, 4) >= 1) =>
        /\ sfntResult.ok
        /\ ReadUInt32BE(sfntResult.buffer, 0) = ReadUInt32BE(sfntBuffer, 0)
        /\ SfntContent(sfntResult.buffer) = SfntContent(sfntBuffer)

(***************************************************************************)
(* C2: once the input is normalised, a failing encoder never makes the     *)
(* call reject, and the resolved value holds the encoder's output for      *)
(* every requested format whose encoder succeeds.                          *)
(***************************************************************************)
C2_PartialFailureIsolation ==
    Normalized =>
        /\ pc # "rejected"
        /\ pc = "resolved" =>
              \A i \in 1..Len(outputFormats) :
                  LET r == ConvertFontEncode(outputFormats[i], ttfBuffer, failing)
                  IN  r.ok => \E j \in 1..Len(results) :
                                 /\ Answers(i, j)
                                 /\ results[j].buffer = r.buffer
                                 /\ results[j].size = Len(r.buffer)

\* a resolved call in which the WOFF2 compressor threw first and the WOFF
\* encoder then delivered its file
C2_Witness ==
    /\ pc = "resolved"
    /\ inputFormat = "ttf"
    /\ WellFormedSfnt(inputBuffer)
    /\ ReadUInt16BE(inputBuffer, 4) = 1
    /\ outputFormats = <<"woff2", "woff">>
    /\ "compressWoff2" \in failing
    /\ consoleErrors = <<"woff2">>
    /\ Len(results) = 1
    /\ results[1].format = "woff"
    /\ Slice(results[1].buffer, 0, 4) = <<119, 79, 70, 70>>

(***************************************************************************)
(* C3 (as claimed): the value a call resolves with accounts for every      *)
(* requested format, by an output buffer or by an error entry.             *)
(***************************************************************************)
C3_EveryFormatAccounted ==
    pc = "resolved" =>
        \A i \in 1..Len(outputFormats) : \E j \in 1..Len(results) : Answers(i, j)

(***************************************************************************)
(* C4 (as claimed): a structurally malformed input container, for any      *)
(* input format, makes the whole call fail.                                *)
(***************************************************************************)
C4_MalformedInputAborts ==
    (Finished /\ MalformedInput) => pc = "rejected"

(***************************************************************************)
(* C5: with inputFormat 'unknown' the call rejects with the                *)
(* unsupported-input-format error, having invoked no collaborator and      *)
(* produced no output.                                                     *)
(***************************************************************************)
C5_UnknownInputRejected ==
    (inputFormat = "unknown" /\ pc # "normalize") =>
        /\ pc = "rejected"
        /\ thrown = "format conversion failed: unsupported input format: unknown"
        /\ calls = {}
        /\ results = <<>>
        /\ ttfBuffer = NoBuffer

\* a rejected call that declared 'unknown' and asked for every codec
C5_Witness ==
    /\ inputFormat = "unknown"
    /\ pc = "rejected"
    /\ outputFormats = <<"woff", "woff2">>
    /\ WellFormedSfnt(inputBuffer)

(***************************************************************************)
(* C6: for every table of a well-formed SFNT the encoder writes            *)
(* compLength <= origLength, storing the deflated bytes only when they are *)
(* strictly shorter than the table and the table verbatim, with            *)
(* compLength = origLength, otherwise.                                     *)
(***************************************************************************)
C6_CompressionMonotone ==
    (Encoded /\ WellFormedSfnt(sfntBuffer)) =>
        /\ woffResult.ok
        /\ ReadUInt16BE(woffResult.buffer, 12) = ReadUInt16BE(sfntBuffer, 4)
        /\ \A k \in 1..ReadUInt16BE(sfntBuffer, 4) :
              LET e      == WoffEntries(woffResult.buffer)[k]
                  data   == SfntTables(sfntBuffer)[k].data
                  at     == PackedPos(woffResult.buffer, k)
                  stored == Slice(woffResult.buffer, at, at + e.compLength)
              IN  /\ e.compLength <= e.origLength
                  /\ e.origLength = Len(data)
                  /\ Len(stored) = e.compLength
                  /\ IF Len(pakoDeflate(data)) < Len(data)
                     THEN stored = pakoDeflate(data) /\ e.compLength < e.origLength
                     ELSE stored = data /\ e.compLength = e.origLength

\* an encoded file holding a deflated table and a non-empty verbatim one
C6_Witness ==
    /\ Encoded
    /\ WellFormedSfnt(sfntBuffer)
    /\ woffResult.ok
    /\ \E k \in 1..ReadUInt16BE(woffResult.buffer, 12) :
          WoffEntries(woffResult.buffer)[k].compLength
              < WoffEntries(woffResult.buffer)[k].origLength
    /\ \E k \in 1..ReadUInt16BE(woffResult.buffer, 12) :
          /\ WoffEntries(woffResult.buffer)[k].compLength
                 = WoffEntries(woffResult.buffer)[k].origLength
          /\ WoffEntries(woffResult.buffer)[k].origLength > 0

(***************************************************************************)
(* C7 (as claimed): in every WOFF file the encoder writes, the directory   *)
(* is at 44 .. 44 + 20 * numTables, and each entry's offset field is a     *)
(* multiple of 4 and is the position of that table's stored bytes, the     *)
(* payloads following the directory with zero padding to 4 bytes.          *)
(***************************************************************************)
C7_WoffLayout ==
    (Encoded /\ woffResult.ok) =>
        LET buf == woffResult.buffer
            n   == ReadUInt16BE(buf, 12)
            es  == WoffEntries(buf)
        IN  /\ n = ReadUInt16BE(sfntBuffer, 4)
            /\ \A k \in 1..n :
                  /\ es[k].offset % 4 = 0
                  /\ es[k].offset = IF k = 1 THEN WoffHeaderSize + n * WoffEntrySize
                                    ELSE es[k - 1].offset + es[k - 1].compLength
                                         + Pad4(es[k - 1].compLength)
                  /\ Slice(buf, es[k].offset, es[k].offset + es[k].compLength)
                         = StoredBytes(SfntTables(sfntBuffer)[k].data)
                  /\ Slice(buf, es[k].offset + es[k].compLength,
                           es[k].offset + es[k].compLength + Pad4(es[k].compLength))
                         = Zeros(Pad4(es[k].compLength))

(***************************************************************************)
(* C8 (as claimed): the decoder reads directory entry i at 44 + 20 * i and *)
(* takes the stored bytes of table i at the offset that entry records.     *)
(***************************************************************************)
C8_DecoderReadPositions ==
    Decoded =>
        \A k \in 1..Len(DecompressWoffTables(woffBuffer)) :
            LET t == DecompressWoffTables(woffBuffer)[k]
            IN  /\ t.entryPos = WoffHeaderSize + (k - 1) * WoffEntrySize
                /\ t.ok => t.payloadPos = ReadUInt32BE(woffBuffer, t.entryPos + 4)

(***************************************************************************)
(* C9 (as claimed): the SFNT the decoder builds carries the flavor of the  *)
(* WOFF header, and table i's checksum is the origChecksum of WOFF         *)
(* directory entry i, tables in directory order.                           *)
(***************************************************************************)
C9_FlavorAndChecksums ==
    (Decoded /\ sfntResult.ok) =>
        /\ ReadUInt32BE(sfntResult.buffer, 0) = ReadUInt32BE(woffBuffer, 4)
        /\ ReadUInt16BE(sfntResult.buffer, 4) = ReadUInt16BE(woffBuffer, 12)
        /\ \A k \in 1..ReadUInt16BE(woffBuffer, 12) :
              /\ SfntTables(sfntResult.buffer)[k].tag = WoffEntries(woffBuffer)[k].tag
              /\ SfntTables(sfntResult.buffer)[k].checksum
                     = WoffEntries(woffBuffer)[k].origChecksum

(***************************************************************************)
(* C10 (as claimed): the SFNT header the decoder writes has                *)
(* entrySelector = floor(log2(numTables)), searchRange = 2^entrySelector   *)
(* * 16 and rangeShift = numTables * 16 - searchRange.                     *)
(***************************************************************************)
C10_DirectoryDerivation ==
    (Decoded /\ sfntResult.ok) =>
        LET n == ReadUInt16BE(sfntResult.buffer, 4)
        IN  /\ n = ReadUInt16BE(woffBuffer, 12)
            /\ ReadUInt16BE(sfntResult.buffer, 8) = FloorLog2(n)
            /\ ReadUInt16BE(sfntResult.buffer, 6) = Pow2(FloorLog2(n)) * 16
            /\ ReadUInt16BE(sfntResult.buffer, 10) = n * 16 - Pow2(FloorLog2(n)) * 16

(***************************************************************************)
(* C11 (as claimed): the totalSfntSize field (bytes 16..20) of every WOFF  *)
(* header the encoder writes is 12 + 16 * numTables plus every origLength  *)
(* rounded up to a multiple of 4, whatever the length of the source        *)
(* buffer.                                                                 *)
(***************************************************************************)
RECURSIVE PaddedLengths(_, _)
PaddedLengths(entries, k) ==
    IF k = 0 THEN 0
    ELSE PaddedLengths(entries, k - 1)
         + entries[k].origLength + Pad4(entries[k].origLength)

C11_TotalSfntSize ==
    (Encoded /\ WellFormedSfnt(sfntBuffer) /\ woffResult.ok) =>
        LET n == ReadUInt16BE(woffResult.buffer, 12)
        IN  ReadUInt32BE(woffResult.buffer, 16)
                = SfntHeaderSize + n * SfntEntrySize
                  + PaddedLengths(WoffEntries(woffResult.buffer), n)

(***************************************************************************)
(* C12 (as claimed): when a directory entry has compLength < origLength    *)
(* the decoder inflates the stored bytes and fails unless the inflated     *)
(* length is origLength; it never emits a table whose length differs from  *)
(* the origLength it writes into the SFNT directory.                       *)
(***************************************************************************)
C12_InflatedLengthChecked ==
    (Decoded /\ sfntResult.ok) =>
        \A k \in 1..Len(DecompressWoffTables(woffBuffer)) :
            LET t == DecompressWoffTables(woffBuffer)[k]
            IN  t.inflated =>
                    /\ Len(t.tableData) = t.origLength
                    /\ SfntTables(sfntResult.buffer)[k].length = Len(t.tableData)

(***************************************************************************)
(* C13 (as claimed): a buffer that starts with 'wOFF' and is shorter than  *)
(* 44 bytes is refused with a truncated-header error, before any directory *)
(* entry is read.                                                          *)
(***************************************************************************)
C13_TruncatedHeader ==
    (Decoded /\ Slice(woffBuffer, 0, 4) = <<119, 79, 70, 70>>
             /\ Len(woffBuffer) < WoffHeaderSize) =>
        /\ ~sfntResult.ok
        /\ sfntResult.error = "WOFF decompress failed: truncated header"
        /\ DecompressWoffTables(woffBuffer) = <<>>

(***************************************************************************)
(* C14 (as claimed): a WOFF buffer that ends before offset + compLength of *)
(* some directory entry is refused; no SFNT is built from a short slice.   *)
(***************************************************************************)
\* header and directory are complete and some stored table runs past the end
PayloadCut(buf) ==
    /\ Slice(buf, 0, 4) = <<119, 79, 70, 70>>
    /\ CanRead(buf, 0, WoffHeaderSize)
    /\ CanRead(buf, WoffHeaderSize, ReadUInt16BE(buf, 12) * WoffEntrySize)
    /\ \E k \in 1..ReadUInt16BE(buf, 12) :
          WoffEntries(buf)[k].offset + WoffEntries(buf)[k].compLength > Len(buf)

C14_TruncatedTable ==
    (Decoded /\ PayloadCut(woffBuffer)) => ~sfntResult.ok

(***************************************************************************)
(* C15 (as claimed): encoding an SFNT with zero tables fails; the encoder  *)
(* never returns a WOFF buffer with numTables = 0.                         *)
(***************************************************************************)
C15_EmptyContainerRefused ==
    Encoded =>
        /\ (WellFormedSfnt(sfntBuffer) /\ ReadUInt16BE(sfntBuffer, 4) = 0)
               => ~woffResult.ok
        /\ woffResult.ok => ReadUInt16BE(woffResult.buffer, 12) # 0

(***************************************************************************)
(* C16: directory entry i of the encoder's output has the tag, the         *)
(* origLength and the checksum of entry i of the source directory; the     *)
(* checksum is the source's, not one computed from the bytes, and the      *)
(* order is the source's.                                                  *)
(***************************************************************************)
C16_DirectoryPreserved ==
    (Encoded /\ WellFormedSfnt(sfntBuffer)) =>
        /\ woffResult.ok
        /\ ReadUInt16BE(woffResult.buffer, 12) = ReadUInt16BE(sfntBuffer, 4)
        /\ ReadUInt32BE(woffResult.buffer, 4) = ReadUInt32BE(sfntBuffer, 0)
        /\ \A k \in 1..ReadUInt16BE(sfntBuffer, 4) :
              /\ WoffEntries(woffResult.buffer)[k].tag = SfntTables(sfntBuffer)[k].tag
              /\ WoffEntries(woffResult.buffer)[k].origLength
                     = SfntTables(sfntBuffer)[k].length
              /\ WoffEntries(woffResult.buffer)[k].origChecksum
                     = SfntTables(sfntBuffer)[k].checksum

\* an encoded two-table file whose tags are not in alphabetical order and
\* whose first checksum is not the sum of the table's words
C16_Witness ==
    /\ Encoded
    /\ woffResult.ok
    /\ ReadUInt16BE(woffResult.buffer, 12) = 2
    /\ WoffEntries(woffResult.buffer)[1].tag = <<104, 101, 97, 100>>
    /\ WoffEntries(woffResult.buffer)[2].tag = <<84, 69, 83, 84>>
    /\ WoffEntries(woffResult.buffer)[1].origLength > 0
    /\ WoffEntries(woffResult.buffer)[1].origChecksum
           # TableChecksum(SfntTables(sfntBuffer)[1].data)

(***************************************************************************)
(* C17 (as claimed): on a buffer of four bytes or more each sniffing       *)
(* function returns, without throwing, the tag of the first four bytes:    *)
(* 'wOFF' woff, 'wOF2' woff2, 'OTTO' otf, 00 01 00 00 or 'true' ttf, and   *)
(* unknown for anything else; isValidFont answers whether that tag is a    *)
(* known one.                                                              *)
(***************************************************************************)
SniffedTag(buf) ==
    LET prefix == Slice(buf, 0, 4)
    IN  IF prefix = <<119, 79, 70, 70>> THEN "woff"
        ELSE IF prefix = <<119, 79, 70, 50>> THEN "woff2"
        ELSE IF prefix = <<79, 84, 84, 79>> THEN "otf"
        ELSE IF prefix \in {<<0, 1, 0, 0>>, <<116, 114, 117, 101>>} THEN "ttf"
        ELSE "unknown"

C17_SniffMapping ==
    (sniffBuffer # NoBuffer /\ Len(sniffBuffer) >= 4) =>
        /\ detected # SniffPending =>
               detected = SniffReturned(SniffedTag(sniffBuffer))
        /\ fontInfo # SniffPending =>
               fontInfo = SniffReturned(SniffedTag(sniffBuffer))
        /\ validFont # SniffPending =>
               validFont = SniffReturnedBool(SniffedTag(sniffBuffer) # "unknown")

(***************************************************************************)
(* C18 (as claimed): on a buffer of fewer than four bytes each sniffing    *)
(* function fails, and with an error of its own: it returns no tag and     *)
(* the failure is not the out-of-range error of a read past the end.       *)
(***************************************************************************)
C18_TooShort ==
    (sniffBuffer # NoBuffer /\ Len(sniffBuffer) < 4) =>
        \A outcome \in {detected, fontInfo, validFont} \ {SniffPending} :
            /\ ~outcome.ok
            /\ outcome.error # "RangeError: out of range"

(***************************************************************************)
(* C19 (as claimed): no buffer of the resolved value refers to the memory  *)
(* of the caller's inputBuffer, and no two of them refer to the same       *)
(* memory.                                                                 *)
(***************************************************************************)
C19_FreshBuffers ==
    pc = "resolved" =>
        /\ \A j \in 1..Len(results) : results[j].ref # InputRef
        /\ \A j, k \in 1..Len(results) : results[j].ref = results[k].ref => j = k

(***************************************************************************)
(* C20: during and after step 2 the intermediate buffer is what step 1     *)
(* made of the input, and every result holds what its format's encoder     *)
(* makes of that buffer: the bytes for a format depend on the input and    *)
(* the format alone, not on the other formats requested or their order.    *)
(***************************************************************************)
C20_OutputIndependence ==
    pc \in {"encode", "resolved"} =>
        LET normalized == ConvertFontNormalize(inputFormat, inputBuffer, failing).buffer
        IN  /\ ttfBuffer = normalized
            /\ \A j \in 1..Len(results) :
                  LET r == ConvertFontEncode(results[j].format, normalized, failing)
                  IN  r.ok /\ results[j].buffer = r.buffer

\* a resolved call that asked for WOFF and then TTF of a WOFF input and got both
C20_Witness ==
    /\ pc = "resolved"
    /\ inputFormat = "woff"
    /\ outputFormats = <<"woff", "ttf">>
    /\ Len(results) = 2
    /\ results[1].buffer # results[2].buffer
    /\ results[2].buffer = ttfBuffer
    /\ WellFormedSfnt(ttfBuffer)

(***************************************************************************)
(* Properties of the pipelines.                                            *)
(***************************************************************************)
PipeOver == ppc \in {"done", "failed"}

\* the subsetter ran and failed
SubsetterFailed == Len(text) > 0 /\ fontmin \in {"err", "no files"}

ResultFormats(outcome) == [j \in 1..Len(outcome.results) |-> outcome.results[j].format]

(***************************************************************************)
(* C21 (as claimed): in both pipelines, when the subsetter fails the font  *)
(* is converted from the unmodified buffer, and a file is written for      *)
(* every format the conversion produced.                                   *)
(***************************************************************************)
C21_SubsetFailureNonFatal ==
    (PipeOver /\ fontInfoOfFile.ok /\ SubsetterFailed) =>
        LET options == [inputBuffer |-> fontBuffer,
                        inputFormat |-> fontInfoOfFile.format,
                        outputFormats |-> formats]
        IN  /\ processedBuffer = fontBuffer
            /\ convertOptions = options
            /\ convertOutcome = convertFont(options, {})
            /\ convertOutcome.ok =>
                   ppc = "done" /\ written = ResultFormats(convertOutcome)

(***************************************************************************)
(* C22 (as claimed): when fontkit cannot read a buffer whose signature is  *)
(* recognised, detection yields the sniffed format with family 'Unknown',  *)
(* style 'Regular' and weight 400, and the pipeline calls convertFont.     *)
(***************************************************************************)
C22_MetadataOptional ==
    (PipeOver /\ ~fontkitOk /\ detectFormat(fontBuffer).format # "unknown") =>
        /\ fontInfoOfFile = [ok |-> TRUE, format |-> detectFormat(fontBuffer).format,
                             family |-> "Unknown", style |-> "Regular",
                             weight |-> 400, error |-> "none"]
        /\ convertOptions # NoOptions

(***************************************************************************)
(* C23 (as claimed): a MemoryCache never holds more than maxSize entries.  *)
(***************************************************************************)
C23_CacheBounded == Len(cache) <= maxSize

(***************************************************************************)
(* C27: get(key) returns the stored value while the clock is not past the  *)
(* expiry the most recent set(key, value, ttl) fixed, and otherwise        *)
(* returns undefined and leaves no entry for the key; has(key) answers     *)
(* whether get(key) returns a value; an entry's value and expiry change    *)
(* only by a set on its key, to that value and to now + ttl.               *)
(***************************************************************************)
\* the entry of key is live at the current reading of the clock
Live(m, key) == MapHas(m, key) /\ now <= MapGet(m, key).expires

C27_NoExpiredEntryServed ==
    [][/\ lastCall'.op = "get" =>
              LET key == lastCall'.key
              IN  IF Live(cache, key)
                  THEN /\ lastCall'.found
                       /\ lastCall'.returned = MapGet(cache, key).value
                       /\ cache' = cache
                  ELSE /\ ~lastCall'.found
                       /\ ~MapHas(cache', key)
       /\ lastCall'.op = "has" =>
              /\ lastCall'.found = Live(cache, lastCall'.key)
              /\ ~lastCall'.found => ~MapHas(cache', lastCall'.key)
       /\ lastCall'.op = "set" =>
              /\ MapHas(cache', lastCall'.key)
              /\ MapGet(cache', lastCall'.key).value = lastCall'.value
              /\ MapGet(cache', lastCall'.key).expires = now + lastCall'.ttl
       /\ \A key \in CacheKeys :
              (MapHas(cache, key) /\ MapHas(cache', key)
                   /\ MapGet(cache', key) # MapGet(cache, key))
                  => lastCall'.op = "set" /\ lastCall'.key = key
      ]_vars

\* a get that found an expired entry, returned undefined and removed it
C27_Witness ==
    /\ lastCall.op = "get"
    /\ lastCall.hadItem
    /\ now > lastCall.itemExpires
    /\ ~lastCall.found
    /\ ~MapHas(cache, lastCall.key)
    /\ Len(cache) > 0

(***************************************************************************)
(* C28 (as claimed): a set on a key that is present leaves every other     *)
(* entry in the cache.                                                     *)
(***************************************************************************)
C28_SetOnPresentKeyKeepsOthers ==
    [][(lastCall'.op = "set" /\ MapHas(cache, lastCall'.key)) =>
           \A i \in 1..Len(cache) :
               cache[i].key # lastCall'.key =>
                   \E j \in 1..Len(cache') : cache'[j] = cache[i]
      ]_vars

(***************************************************************************)
(* C24 (as claimed): the characters of extractUniqueChars(t) are the       *)
(* distinct characters of t, each once, in order of first occurrence, and  *)
(* applying the function to its own result changes nothing.                *)
(***************************************************************************)
\* the position of the first occurrence of character c in the text
FirstOccurrence(str, c) ==
    CHOOSE i \in 1..Len(StringIterator(str)) :
        /\ StringIterator(str)[i] = c
        /\ \A j \in 1..(i - 1) : StringIterator(str)[j] # c

\* no pair of adjacent units of the text is read apart from its neighbours:
\* every surrogate is half of a pair
WellFormedText(str) ==
    \A i \in 1..Len(StringIterator(str)) :
        LET c == StringIterator(str)[i]
        IN  Len(c) = 1 => ~IsHighSurrogate(c[1]) /\ ~IsLowSurrogate(c[1])

C24_UniqueCharsIdempotent ==
    /\ tpc \in {"once", "twice"} =>
          LET given == StringIterator(inputText)
              out == StringIterator(unique)
          IN  /\ \A i, j \in 1..Len(out) : out[i] = out[j] => i = j
              /\ {out[i] : i \in 1..Len(out)} = {given[i] : i \in 1..Len(given)}
              /\ \A i, j \in 1..Len(out) :
                    i < j => FirstOccurrence(inputText, out[i]) < FirstOccurrence(inputText, out[j])
    /\ tpc = "twice" => uniqueAgain = unique

(***************************************************************************)
(* C25 (as claimed): at no moment are more than concurrency invocations of *)
(* fn started and not yet settled.                                         *)
(***************************************************************************)
Running == started \ settled

C25_ConcurrencyLimit == Cardinality(Running) <= concurrency

(***************************************************************************)
(* C26 (as claimed): when batchProcess returns, fn has settled for every   *)
(* item and results[i] is the value fn(items[i], i) resolved to.           *)
(***************************************************************************)
C26_AllSettledAtReturn ==
    bpc = "returned" =>
        /\ Running = {}
        /\ \A i \in 0..(Len(items) - 1) :
              i \in settled /\ batchResults[i + 1] = FnValue(items, i)

(***************************************************************************)
(* C29 (as claimed): in every SFNT the decoder returns, entry k of the     *)
(* directory designates exactly the bytes of table k, at an offset that is *)
(* a multiple of 4, inside the buffer and before the next table; the first *)
(* table starts right after the directory.                                 *)
(***************************************************************************)
C29_DecodedSfntConsistent ==
    (Decoded /\ sfntResult.ok) =>
        LET out    == sfntResult.buffer
            n      == ReadUInt16BE(out, 4)
            tables == DecompressWoffTables(woffBuffer)
        IN  /\ n = Len(tables)
            /\ \A k \in 1..n :
                  LET entry == SfntTables(out)[k]
                  IN  /\ entry.offset % 4 = 0
                      /\ entry.offset + entry.length <= Len(out)
                      /\ Slice(out, entry.offset, entry.offset + entry.length)
                             = tables[k].tableData
                      /\ k = 1 => entry.offset = SfntHeaderSize + n * SfntEntrySize
                      /\ k < n => entry.offset + entry.length
                                      <= SfntTables(out)[k + 1].offset

(***************************************************************************)
(* C30 (as claimed): whenever a pipeline calls convertFont, the            *)
(* inputFormat it passes is the format the signature of the inputBuffer it *)
(* passes sniffs to.                                                       *)
(***************************************************************************)
C30_DeclaredFormatIsSniffed ==
    convertOptions # NoOptions =>
        /\ detectFormat(convertOptions.inputBuffer).ok
        /\ convertOptions.inputFormat = detectFormat(convertOptions.inputBuffer).format

====
